---- MODULE Spec2Model ----
(***************************************************************************)
(* Model of the XCM CrossPay engine: the transfer guard                    *)
(* (xcm-engine/guard.ts) and the capability table it consults              *)
(* (xcm-engine/capabilities.ts), the request validator                     *)
(* (xcm-engine/validate.ts), the fee quoter (xcm-engine/fees.ts), the      *)
(* dry-run builder (xcm-engine/dryRun.ts), the App component that wires    *)
(* them to the form and to real submission (frontend/src/App.tsx), the     *)
(* balance probes (frontend/src/engine/balances.ts) and the wallet panel's *)
(* subscription effect (frontend/src/WalletPanel.tsx).                     *)
(*                                                                         *)
(* The pure functions are each checked under a specification of their own  *)
(* (Spec, SpecValidate, SpecFees, SpecDryRun, SpecSafety) that draws an    *)
(* input, calls the function and keeps its result; SpecApp is the App      *)
(* state machine; SpecConnect, SpecProbe and SpecWallet run one call of    *)
(* connectWithFallback, of probeAllChains and of the wallet effect step by *)
(* step against the answers of the network.                                *)
(*                                                                         *)
(* Numbers.  Token amounts are JavaScript numbers in the source.  Here a   *)
(* finite amount is a fixed-point integer counting hundredths of a token   *)
(* (0.01 DOT == 1), so 0.05 is 5, 0.10 is 10 and 0.50 is 50.  The          *)
(* non-finite numbers NaN, Infinity and -Infinity are separate values.     *)
(* An optional field (x?: T) is the empty set when it is undefined and the *)
(* singleton {v} when it holds v.                                          *)
(***************************************************************************)
EXTENDS Integers, Sequences, FiniteSets, TLC

VARIABLES input, result, pc

\* the state of the App component (useState hooks) and of a running onSubmitReal
VARIABLES req, serviceFeeEnabled, wallet, selectedAddress, dryRun, submitting,
          pcSubmit, call, apiConnected, dispatchLogged

appVars == <<req, serviceFeeEnabled, wallet, selectedAddress, dryRun, submitting,
             pcSubmit, call, apiConnected, dispatchLogged>>

vars == <<input, result, pc, req, serviceFeeEnabled, wallet, selectedAddress, dryRun,
          submitting, pcSubmit, call, apiConnected, dispatchLogged>>

harnessVars == <<input, result, pc>>

\* no onSubmitReal is running
NoCall ==
  [ route |-> "none",
    req |-> [from |-> "assethub", to |-> "hydradx", asset |-> "USDC_AH", amount |-> ""],
    address |-> "" ]

\* the useState initial values of App
AppStart ==
  /\ req = [from |-> "assethub", to |-> "hydradx", asset |-> "USDC_AH", amount |-> ""]
  /\ serviceFeeEnabled = TRUE
  /\ wallet = [balanceDot |-> {}, edDot |-> {}]
  /\ selectedAddress = ""
  /\ dryRun = {}
  /\ submitting = FALSE
  /\ pcSubmit = "idle"
  /\ call = NoCall
  /\ apiConnected = FALSE
  /\ dispatchLogged = FALSE

(***************************************************************************)
(* Bounds of the checked input space.                                      *)
(***************************************************************************)
MaxAmount == 52
MaxFree == 1
MaxED == 2

(***************************************************************************)
(* capabilities.ts                                                         *)
(***************************************************************************)
Chain == {"assethub", "hydradx", "relay", "people"}

Asset == {"DOT", "USDC", "USDT"}

RouteMode == {"stable_reserve", "dot_teleport", "dot_execute_advanced"}

CAPABILITIES ==
  [ stablecoin |->
      [ assets |-> {"USDC", "USDT"},
        routes |-> << [from |-> "assethub", to |-> "hydradx", mode |-> "stable_reserve"],
                      [from |-> "hydradx", to |-> "assethub", mode |-> "stable_reserve"] >>,
        minAmount |-> 10 ],
    dotTeleport |->
      [ assets |-> {"DOT"},
        routes |-> << [from |-> "assethub", to |-> "relay", mode |-> "dot_teleport"],
                      [from |-> "relay", to |-> "assethub", mode |-> "dot_teleport"],
                      [from |-> "assethub", to |-> "people", mode |-> "dot_teleport"],
                      [from |-> "people", to |-> "assethub", mode |-> "dot_teleport"] >>,
        minAmount |-> 5 ],
    dotExecuteAdvanced |->
      [ enabledByDefault |-> FALSE,
        assets |-> {"DOT"},
        routes |-> << [from |-> "assethub", to |-> "hydradx", mode |-> "dot_execute_advanced"] >>,
        minAmount |-> 5,
        maxAmount |-> 50 ] ]

(***************************************************************************)
(* JavaScript numbers and optional fields.                                 *)
(***************************************************************************)
Num(n) == [kind |-> "finite", val |-> n]

NaN == [kind |-> "NaN", val |-> 0]

PosInfinity == [kind |-> "Infinity", val |-> 0]

NegInfinity == [kind |-> "-Infinity", val |-> 0]

\* typeof x === "number" for an optional numeric field
IsNumber(x) == x # {}

\* the value held by an optional field that is defined
Val(x) == CHOOSE v \in x : TRUE

\* Number.isFinite(amount), mutated: Infinity counts as finite
isFinite_acceptsInfinity(amount) == amount.kind \in {"finite", "Infinity"}

\* Number.isFinite(amount)
isFinite(amount) == amount.kind = "finite"

\* amount <= 0 on JavaScript numbers (NaN compares false with everything)
leqZero(amount) ==
  \/ amount.kind = "-Infinity"
  \/ amount.kind = "finite" /\ amount.val <= 0

\* amount < n on a JavaScript number and a finite bound
jsLt(amount, n) ==
  \/ amount.kind = "-Infinity"
  \/ amount.kind = "finite" /\ amount.val < n

\* amount > n on a JavaScript number and a finite bound
jsGt(amount, n) ==
  \/ amount.kind = "Infinity"
  \/ amount.kind = "finite" /\ amount.val > n

(***************************************************************************)
(* guard.ts                                                                *)
(***************************************************************************)
GuardInput ==
  [ from : Chain,
    to : Chain,
    asset : Asset,
    amount : {Num(n) : n \in -1 .. MaxAmount} \cup {NaN, PosInfinity, NegInfinity},
    relayFreeDot : {{}} \cup {{n} : n \in 0 .. MaxFree},
    relayEDDot : {{}} \cup {{n} : n \in 0 .. MaxED},
    peopleFreeDot : {{}} \cup {{n} : n \in 0 .. MaxFree},
    peopleEDDot : {{}} \cup {{n} : n \in 0 .. MaxED} ]

\* the value of `result` before guardRoute has returned
NoResult == [ok |-> FALSE, hardBlock |-> FALSE, mode |-> {}, reason |-> "", minRequired |-> {}]

\* inRoutes, mutated: the mode of the table entry is not compared
inRoutes_ignoresMode(from, to, mode) ==
  LET all == CAPABILITIES.stablecoin.routes
             \o CAPABILITIES.dotTeleport.routes
             \o CAPABILITIES.dotExecuteAdvanced.routes
  IN \E i \in 1 .. Len(all) : all[i].from = from /\ all[i].to = to

inRoutes(from, to, mode) ==
  LET all == CAPABILITIES.stablecoin.routes
             \o CAPABILITIES.dotTeleport.routes
             \o CAPABILITIES.dotExecuteAdvanced.routes
  IN \E i \in 1 .. Len(all) :
       all[i].from = from /\ all[i].to = to /\ all[i].mode = mode

\* buffer, mutated: the 0.01 fee buffer is left out
buffer_withoutFeeBuffer == 0 + 5

\* const buffer = 0.01 + 0.05
buffer == 1 + 5

\* minRequired, mutated: the destination's free balance is not subtracted
minRequired_ignoresFree(free, ed) == Val(ed) + buffer

\* const minRequired = (red - rf) + buffer, and the same for (ped - pf)
minRequired(free, ed) == (Val(ed) - Val(free)) + buffer

\* bootstrapBlocked, mutated: an amount equal to minRequired is rejected too
bootstrapBlocked_inclusive(free, ed, amount) ==
  /\ IsNumber(free) /\ IsNumber(ed) /\ Val(free) < Val(ed)
  /\ ~jsGt(amount, minRequired(free, ed))

\* bootstrapBlocked, mutated: a destination holding exactly ED counts as below ED
bootstrapBlocked_atED(free, ed, amount) ==
  /\ IsNumber(free) /\ IsNumber(ed) /\ Val(free) <= Val(ed)
  /\ jsLt(amount, minRequired(free, ed))

\* typeof free === "number" && typeof ed === "number" && free < ed
\*   && amount < minRequired: the two nested conditions of a bootstrap check
bootstrapBlocked(free, ed, amount) ==
  /\ IsNumber(free) /\ IsNumber(ed) /\ Val(free) < Val(ed)
  /\ jsLt(amount, minRequired(free, ed))

\* stablecoinBranch, mutated: the minimum-amount rejection is soft
stablecoinBranch_softReject(in) ==
  LET mode == "stable_reserve" IN
  IF ~inRoutes(in.from, in.to, mode)
    THEN [ok |-> FALSE, hardBlock |-> TRUE, mode |-> {mode},
          reason |-> "Stablecoin route not supported in safe-mode.", minRequired |-> {}]
  ELSE IF jsLt(in.amount, CAPABILITIES.stablecoin.minAmount)
    THEN [ok |-> FALSE, hardBlock |-> FALSE, mode |-> {mode},
          reason |-> "Minimum stablecoin amount is 0.10.", minRequired |-> {}]
  ELSE [ok |-> TRUE, hardBlock |-> FALSE, mode |-> {mode}, reason |-> "", minRequired |-> {}]

\* stablecoinBranch, mutated: an amount equal to minAmount is rejected
stablecoinBranch_exclusiveMin(in) ==
  LET mode == "stable_reserve" IN
  IF ~inRoutes(in.from, in.to, mode)
    THEN [ok |-> FALSE, hardBlock |-> TRUE, mode |-> {mode},
          reason |-> "Stablecoin route not supported in safe-mode.", minRequired |-> {}]
  ELSE IF ~jsGt(in.amount, CAPABILITIES.stablecoin.minAmount)
    THEN [ok |-> FALSE, hardBlock |-> TRUE, mode |-> {mode},
          reason |-> "Minimum stablecoin amount is 0.10.", minRequired |-> {}]
  ELSE [ok |-> TRUE, hardBlock |-> FALSE, mode |-> {mode}, reason |-> "", minRequired |-> {}]

\* the "stablecoins" block of guardRoute
stablecoinBranch(in) ==
  LET mode == "stable_reserve" IN
  IF ~inRoutes(in.from, in.to, mode)
    THEN [ok |-> FALSE, hardBlock |-> TRUE, mode |-> {mode},
          reason |-> "Stablecoin route not supported in safe-mode.", minRequired |-> {}]
  ELSE IF jsLt(in.amount, CAPABILITIES.stablecoin.minAmount)
    THEN [ok |-> FALSE, hardBlock |-> TRUE, mode |-> {mode},
          reason |-> "Minimum stablecoin amount is 0.10.", minRequired |-> {}]
  ELSE [ok |-> TRUE, hardBlock |-> FALSE, mode |-> {mode}, reason |-> "", minRequired |-> {}]

\* dotTeleportBranch, mutated: the People check is made on every teleport route
dotTeleportBranch_peopleCheckEverywhere(in) ==
  LET mode == "dot_teleport"
      rf == in.relayFreeDot
      red == in.relayEDDot
      pf == in.peopleFreeDot
      ped == in.peopleEDDot
  IN
  IF ~inRoutes(in.from, in.to, mode)
    THEN [ok |-> FALSE, hardBlock |-> TRUE, mode |-> {mode},
          reason |-> "DOT teleport route not supported.", minRequired |-> {}]
  ELSE IF jsLt(in.amount, CAPABILITIES.dotTeleport.minAmount)
    THEN [ok |-> FALSE, hardBlock |-> TRUE, mode |-> {mode},
          reason |-> "Minimum DOT teleport amount is 0.05.", minRequired |-> {}]
  ELSE IF in.from = "assethub" /\ in.to = "relay" /\ bootstrapBlocked(rf, red, in.amount)
    THEN [ok |-> FALSE, hardBlock |-> TRUE, mode |-> {mode},
          reason |-> "Relay account is below ED.",
          minRequired |-> {minRequired(rf, red)}]
  ELSE IF bootstrapBlocked(pf, ped, in.amount)
    THEN [ok |-> FALSE, hardBlock |-> TRUE, mode |-> {mode},
          reason |-> "People account is below ED.",
          minRequired |-> {minRequired(pf, ped)}]
  ELSE [ok |-> TRUE, hardBlock |-> FALSE, mode |-> {mode}, reason |-> "", minRequired |-> {}]

\* the "DOT teleport" block of guardRoute, with both bootstrap checks
dotTeleportBranch(in) ==
  LET mode == "dot_teleport"
      rf == in.relayFreeDot
      red == in.relayEDDot
      pf == in.peopleFreeDot
      ped == in.peopleEDDot
  IN
  IF ~inRoutes(in.from, in.to, mode)
    THEN [ok |-> FALSE, hardBlock |-> TRUE, mode |-> {mode},
          reason |-> "DOT teleport route not supported.", minRequired |-> {}]
  ELSE IF jsLt(in.amount, CAPABILITIES.dotTeleport.minAmount)
    THEN [ok |-> FALSE, hardBlock |-> TRUE, mode |-> {mode},
          reason |-> "Minimum DOT teleport amount is 0.05.", minRequired |-> {}]
  ELSE IF in.from = "assethub" /\ in.to = "relay" /\ bootstrapBlocked(rf, red, in.amount)
    THEN [ok |-> FALSE, hardBlock |-> TRUE, mode |-> {mode},
          reason |-> "Relay account is below ED.",
          minRequired |-> {minRequired(rf, red)}]
  ELSE IF in.from = "assethub" /\ in.to = "people" /\ bootstrapBlocked(pf, ped, in.amount)
    THEN [ok |-> FALSE, hardBlock |-> TRUE, mode |-> {mode},
          reason |-> "People account is below ED.",
          minRequired |-> {minRequired(pf, ped)}]
  ELSE [ok |-> TRUE, hardBlock |-> FALSE, mode |-> {mode}, reason |-> "", minRequired |-> {}]

\* the "DOT advanced execute" block of guardRoute
dotExecuteAdvancedBranch(in) ==
  LET mode == "dot_execute_advanced" IN
  IF \/ jsLt(in.amount, CAPABILITIES.dotExecuteAdvanced.minAmount)
     \/ jsGt(in.amount, CAPABILITIES.dotExecuteAdvanced.maxAmount)
    THEN [ok |-> FALSE, hardBlock |-> TRUE, mode |-> {mode},
          reason |-> "Advanced DOT execute supports 0.05-0.50 DOT.", minRequired |-> {}]
  ELSE [ok |-> TRUE, hardBlock |-> FALSE, mode |-> {mode},
        reason |-> "Advanced route enabled (experimental).", minRequired |-> {}]

\* guardRoute, mutated: the same-chain rejection is soft
guardRoute_softSameChain(in) ==
  IF in.from = in.to
    THEN [ok |-> FALSE, hardBlock |-> FALSE, mode |-> {},
          reason |-> "From and To must be different.", minRequired |-> {}]
  ELSE IF ~isFinite(in.amount) \/ leqZero(in.amount)
    THEN [ok |-> FALSE, hardBlock |-> TRUE, mode |-> {},
          reason |-> "Amount must be greater than zero.", minRequired |-> {}]
  ELSE IF in.asset \in {"USDC", "USDT"} /\ in.from \in {"assethub", "hydradx"}
    THEN stablecoinBranch(in)
  ELSE IF in.asset = "DOT" /\ in.from \in {"assethub", "relay", "people"}
    THEN dotTeleportBranch(in)
  ELSE IF in.asset = "DOT" /\ in.from = "assethub" /\ in.to = "hydradx"
    THEN dotExecuteAdvancedBranch(in)
  ELSE [ok |-> FALSE, hardBlock |-> TRUE, mode |-> {},
        reason |-> "Unsupported asset/route combination.", minRequired |-> {}]

guardRoute(in) ==
  IF in.from = in.to
    THEN [ok |-> FALSE, hardBlock |-> TRUE, mode |-> {},
          reason |-> "From and To must be different.", minRequired |-> {}]
  ELSE IF ~isFinite(in.amount) \/ leqZero(in.amount)
    THEN [ok |-> FALSE, hardBlock |-> TRUE, mode |-> {},
          reason |-> "Amount must be greater than zero.", minRequired |-> {}]
  ELSE IF in.asset \in {"USDC", "USDT"} /\ in.from \in {"assethub", "hydradx"}
    THEN stablecoinBranch(in)
  ELSE IF in.asset = "DOT" /\ in.from \in {"assethub", "relay", "people"}
    THEN dotTeleportBranch(in)
  ELSE IF in.asset = "DOT" /\ in.from = "assethub" /\ in.to = "hydradx"
    THEN dotExecuteAdvancedBranch(in)
  ELSE [ok |-> FALSE, hardBlock |-> TRUE, mode |-> {},
        reason |-> "Unsupported asset/route combination.", minRequired |-> {}]

(***************************************************************************)
(* The caller builds a GuardInput and calls guardRoute on it.              *)
(***************************************************************************)
Init ==
  /\ input \in GuardInput
  /\ result = NoResult
  /\ pc = "start"
  /\ AppStart

CallGuardRoute ==
  /\ pc = "start"
  /\ result' = guardRoute(input)
  /\ pc' = "done"
  /\ UNCHANGED <<input, appVars>>

Next == CallGuardRoute

Spec == Init /\ [][Next]_vars

(***************************************************************************)
(* types.ts: the request handed to the validator and the dry-run builder.  *)
(* The amount is a decimal string typed by the user; AmountStrings holds   *)
(* one string of each kind the code tells apart.                           *)
(***************************************************************************)
ChainKey == {"assethub", "hydradx", "relay", "people"}

AssetKey == {"DOT", "USDC_AH", "USDT_AH", "USDC_HYDRA", "USDT_HYDRA"}

AmountStrings == {"", " ", "abc", "0", "-1", "0.05", "1"}

TransferRequest == [from : ChainKey, to : ChainKey, asset : AssetKey, amount : AmountStrings]

\* Number(s) on the amount strings, in hundredths of a token
toNumber(s) ==
  CASE s = "" -> Num(0)
    [] s = " " -> Num(0)
    [] s = "abc" -> NaN
    [] s = "0" -> Num(0)
    [] s = "-1" -> Num(-100)
    [] s = "0.05" -> Num(5)
    [] s = "1" -> Num(100)

(***************************************************************************)
(* validate.ts                                                             *)
(***************************************************************************)
allowedAssets == {"DOT", "USDC_AH", "USDC_HYDRA"}

allowedChains == {"assethub", "hydradx"}

\* validateRequest, mutated: it returns at the first violated check
validateRequest_shortCircuit(r) ==
  IF r.from = r.to THEN <<"From and To chains must be different.">>
  ELSE IF r.amount = "" \/ leqZero(toNumber(r.amount))
    THEN <<"Amount must be greater than zero.">>
  ELSE IF r.asset \notin allowedAssets THEN <<"Unsupported asset (Phase 0/1).">>
  ELSE IF r.from \notin allowedChains \/ r.to \notin allowedChains
    THEN <<"Unsupported chain (Phase 0/1).">>
  ELSE <<>>

validateRequest(r) ==
  (IF r.from = r.to THEN <<"From and To chains must be different.">> ELSE <<>>)
  \o (IF r.amount = "" \/ leqZero(toNumber(r.amount))
        THEN <<"Amount must be greater than zero.">> ELSE <<>>)
  \o (IF r.asset \notin allowedAssets THEN <<"Unsupported asset (Phase 0/1).">> ELSE <<>>)
  \o (IF r.from \notin allowedChains \/ r.to \notin allowedChains
        THEN <<"Unsupported chain (Phase 0/1).">> ELSE <<>>)

ValidateInit ==
  /\ input \in TransferRequest
  /\ result = <<>>
  /\ pc = "start"
  /\ AppStart

CallValidateRequest ==
  /\ pc = "start"
  /\ result' = validateRequest(input)
  /\ pc' = "done"
  /\ UNCHANGED <<input, appVars>>

SpecValidate == ValidateInit /\ [][CallValidateRequest]_vars

(***************************************************************************)
(* fees.ts                                                                 *)
(*                                                                         *)
(* The fees (networkFeeDotEst, minDot, maxDot, service, total) are         *)
(* fixed-point integers counting 0.0000001 DOT, one digit finer than the   *)
(* six fractional digits of the output.  amountDot counts 0.001 DOT and    *)
(* pct counts 0.0001 (0.15% == 15), so amountDot * pct is a fee, exactly.  *)
(* A decimal string made by toFixed(6) is the integer count of 0.000001    *)
(* DOT it spells.                                                          *)
(***************************************************************************)
MaxFineAmount == 30
MaxWholeDot == 140

\* one DOT as an amount, in 0.001 DOT
Dot == 10 * 100

DEFAULT_SERVICE_FEE == [pct |-> 15, minDot |-> 2 * 100000, maxDot |-> 20 * 100000]

FeeClamps ==
  {DEFAULT_SERVICE_FEE, [pct |-> 20, minDot |-> 2 * 100000, maxDot |-> 20 * 100000]}
  \cup [pct : {15, 20}, minDot : {0, 7, 25}, maxDot : {20, 44}]

FeeAmounts == (-1 .. MaxFineAmount) \cup {k * Dot : k \in 1 .. MaxWholeDot}

\* 0, 0.0000004 and 0.012 DOT
NetworkFees == {0, 4, 12 * 10000}

\* the quote is asked for a transfer of some route mode; quoteFeesDot has no
\* parameter for it
FeeInput ==
  [amountDot : FeeAmounts, networkFeeDotEst : NetworkFees, clamp : FeeClamps, mode : RouteMode]

NoQuote == [networkFeeDotEst |-> 0, serviceFeeDot |-> 0, totalFeeDot |-> 0, notes |-> <<>>]

\* x.toFixed(6): rounded to the nearest 0.000001, halves away from zero
toFixed6(x) == IF x >= 0 THEN (x + 5) \div 10 ELSE -((5 - x) \div 10)

\* serviceFee, mutated: the maximum clamp is left out
serviceFee_noMaxClamp(amountDot, clamp) ==
  LET service == amountDot * clamp.pct
      belowMin == service < clamp.minDot
      clamped == IF belowMin THEN clamp.minDot ELSE service
  IN [service |-> clamped,
      notes |-> IF belowMin THEN <<"Service fee clamped to minimum">> ELSE <<>>]

\* serviceFee, mutated: a fee equal to minDot gets the minimum note
serviceFee_minNoteAtBound(amountDot, clamp) ==
  LET service == amountDot * clamp.pct
      belowMin == service <= clamp.minDot
      clamped == IF belowMin THEN clamp.minDot ELSE service
      aboveMax == clamped > clamp.maxDot
  IN [service |-> IF aboveMax THEN clamp.maxDot ELSE clamped,
      notes |-> (IF belowMin THEN <<"Service fee clamped to minimum">> ELSE <<>>)
                \o (IF aboveMax THEN <<"Service fee clamped to maximum">> ELSE <<>>)]

\* serviceFee, mutated: a fee above maxDot is set to minDot
serviceFee_maxToMin(amountDot, clamp) ==
  LET service == amountDot * clamp.pct
      belowMin == service < clamp.minDot
      clamped == IF belowMin THEN clamp.minDot ELSE service
      aboveMax == clamped > clamp.maxDot
  IN [service |-> IF aboveMax THEN clamp.minDot ELSE clamped,
      notes |-> (IF belowMin THEN <<"Service fee clamped to minimum">> ELSE <<>>)
                \o (IF aboveMax THEN <<"Service fee clamped to maximum">> ELSE <<>>)]

\* let service = amountDot * clamp.pct and the two clamping ifs of quoteFeesDot
serviceFee(amountDot, clamp) ==
  LET service == amountDot * clamp.pct
      belowMin == service < clamp.minDot
      clamped == IF belowMin THEN clamp.minDot ELSE service
      aboveMax == clamped > clamp.maxDot
  IN [service |-> IF aboveMax THEN clamp.maxDot ELSE clamped,
      notes |-> (IF belowMin THEN <<"Service fee clamped to minimum">> ELSE <<>>)
                \o (IF aboveMax THEN <<"Service fee clamped to maximum">> ELSE <<>>)]

\* quoteFeesDot, mutated: the total is the network fee alone
quoteFeesDot_totalWithoutService(amountDot, networkFeeDotEst, clamp) ==
  LET s == serviceFee(amountDot, clamp)
      total == networkFeeDotEst
  IN [networkFeeDotEst |-> toFixed6(networkFeeDotEst),
      serviceFeeDot |-> toFixed6(s.service),
      totalFeeDot |-> toFixed6(total),
      notes |-> s.notes]

quoteFeesDot(amountDot, networkFeeDotEst, clamp) ==
  LET s == serviceFee(amountDot, clamp)
      total == networkFeeDotEst + s.service
  IN [networkFeeDotEst |-> toFixed6(networkFeeDotEst),
      serviceFeeDot |-> toFixed6(s.service),
      totalFeeDot |-> toFixed6(total),
      notes |-> s.notes]

FeesInit ==
  /\ input \in FeeInput
  /\ result = NoQuote
  /\ pc = "start"
  /\ AppStart

CallQuoteFeesDot ==
  /\ pc = "start"
  /\ result' = quoteFeesDot(input.amountDot, input.networkFeeDotEst, input.clamp)
  /\ pc' = "done"
  /\ UNCHANGED <<input, appVars>>

SpecFees == FeesInit /\ [][CallQuoteFeesDot]_vars

(***************************************************************************)
(* dryRun.ts                                                               *)
(***************************************************************************)
\* the fee quotes handed to the builder: 0, 20 and 140 DOT at the default clamp
DryRunFees == {quoteFeesDot(a * Dot, 12 * 10000, DEFAULT_SERVICE_FEE) : a \in {0, 20, 140}}

DryRunInput == [req : TransferRequest, fee : DryRunFees]

\* routeOf, mutated: both endpoints must be assethub
routeOf_bothEndpoints(r) ==
  IF r.from = "assethub" /\ r.to = "assethub" THEN "direct" ELSE "via Asset Hub"

\* const route = ... of buildXcmDryRun
routeOf(r) ==
  IF r.from = "assethub" \/ r.to = "assethub" THEN "direct" ELSE "via Asset Hub"

\* buildXcmDryRun, mutated: DepositAsset is addressed to the source chain
buildXcmDryRun_depositToSource(r, fee) ==
  LET xcmPreview ==
        [ WithdrawAsset |-> [asset |-> r.asset, amount |-> r.amount, from |-> r.from],
          BuyExecution |-> [fees |-> fee.totalFeeDot, asset |-> "DOT"],
          DepositAsset |-> [asset |-> r.asset, amount |-> r.amount, to |-> r.from] ]
  IN [ mode |-> "dry-run", from |-> r.from, to |-> r.to, asset |-> r.asset,
       amount |-> r.amount, route |-> routeOf(r), fees |-> fee, xcm |-> xcmPreview ]

buildXcmDryRun(r, fee) ==
  LET xcmPreview ==
        [ WithdrawAsset |-> [asset |-> r.asset, amount |-> r.amount, from |-> r.from],
          BuyExecution |-> [fees |-> fee.totalFeeDot, asset |-> "DOT"],
          DepositAsset |-> [asset |-> r.asset, amount |-> r.amount, to |-> r.to] ]
  IN [ mode |-> "dry-run", from |-> r.from, to |-> r.to, asset |-> r.asset,
       amount |-> r.amount, route |-> routeOf(r), fees |-> fee, xcm |-> xcmPreview ]

DryRunInit ==
  /\ input \in DryRunInput
  /\ result = <<>>
  /\ pc = "start"
  /\ AppStart

\* the function assigns to neither of its parameters
CallBuildXcmDryRun ==
  /\ pc = "start"
  /\ result' = buildXcmDryRun(input.req, input.fee)
  /\ pc' = "done"
  /\ UNCHANGED <<input, appVars>>

SpecDryRun == DryRunInit /\ [][CallBuildXcmDryRun]_vars

(***************************************************************************)
(* frontend/src/App.tsx: the App component with the stablecoin routes.     *)
(*                                                                         *)
(* The state is the useState hooks; what a render derives from them        *)
(* (guardedReq, errors, feeQuote, safe, canPreview, canSubmitReal) is a    *)
(* definition over the state.  The wallet's balanceDot and edDot are       *)
(* decimal strings or undefined; a defined one is the integer count of     *)
(* 0.000001 DOT it spells, the unit of Number(feeQuote.totalFeeDot).       *)
(* onSubmitReal runs from the click to its first await in one step and     *)
(* keeps the render's values it closed over in `call`.  The SendForm that  *)
(* renders the submit button of this App is not among the sources: the     *)
(* handler may be called in every state in which no call is running.       *)
(***************************************************************************)
MaxWalletBalance == 5
MaxWalletED == 1

\* one hundredth of a DOT, in 0.000001 DOT
Cent == 10 * 1000

AppChains == {"assethub", "hydradx"}

AppAssets == {"USDC_AH", "USDT_AH", "USDC_HYDRA", "USDT_HYDRA"}

Addresses == {"5Alice", "5Bob"}

WalletBalances == {{}} \cup {{b * Cent} : b \in 0 .. MaxWalletBalance}

WalletEDs == {{}} \cup {{e * Cent} : e \in 0 .. MaxWalletED}

\* what WalletPanel passes to onChainData, without the status text
ChainDataUpdates ==
  {[balanceDot |-> {}, edDot |-> {}]}
  \cup {[edDot |-> e] : e \in WalletEDs \ {{}}}
  \cup {[balanceDot |-> b] : b \in WalletBalances \ {{}}}

\* the metadata's decimals of an asset
AssetDecimals == {1, 6}

\* s.trim() on the amount strings
trim(s) == IF s = " " THEN "" ELSE s

\* parseDecimalToInt on the amount strings: 0n unless /^(\d*)\.?(\d*)$/ matches
parseDecimalToInt(amount, decimals) ==
  CASE trim(amount) = "" -> 0
    [] amount = "abc" -> 0
    [] amount = "-1" -> 0
    [] amount = "0" -> 0
    [] amount = "0.05" -> IF decimals >= 2 THEN 5 * 10 ^ (decimals - 2) ELSE 0
    [] amount = "1" -> 10 ^ decimals

makeFeeQuoteNoService(networkFee) ==
  [ networkFeeDotEst |-> toFixed6(networkFee),
    serviceFeeDot |-> toFixed6(0),
    totalFeeDot |-> toFixed6(networkFee),
    notes |-> <<"Service fee disabled (opt-out).">> ]

guardedReq ==
  IF req.from # req.to THEN req
  ELSE [req EXCEPT !.to = IF req.from = "assethub" THEN "hydradx" ELSE "assethub"]

errors == validateRequest(guardedReq)

\* const networkFeeDotEst = 0.012
networkFeeDotEst == 12 * 10000

feeQuote ==
  IF ~serviceFeeEnabled THEN makeFeeQuoteNoService(networkFeeDotEst)
  ELSE LET q == quoteFeesDot(0, networkFeeDotEst, DEFAULT_SERVICE_FEE) IN
       [q EXCEPT !.notes =
          q.notes \o <<"Stablecoin transfer: service fee is min-clamped when enabled.">>]

\* Number.isFinite of balNative, edNative and feeTotal
hasWalletNums == wallet.balanceDot # {} /\ wallet.edDot # {}

remaining == Val(wallet.balanceDot) - feeQuote.totalFeeDot

safe == IF hasWalletNums THEN remaining >= Val(wallet.edDot) ELSE FALSE

\* canPreview, mutated: the validator's errors are not consulted
canPreview_ignoresErrors == safe

canPreview == errors = <<>> /\ safe

supportsAhToHydra ==
  /\ guardedReq.from = "assethub"
  /\ guardedReq.to = "hydradx"
  /\ guardedReq.asset \in {"USDC_AH", "USDT_AH"}
  /\ selectedAddress # ""
  /\ trim(guardedReq.amount) # ""

supportsHydraToAh ==
  /\ guardedReq.from = "hydradx"
  /\ guardedReq.to = "assethub"
  /\ guardedReq.asset \in {"USDC_HYDRA", "USDT_HYDRA"}
  /\ selectedAddress # ""
  /\ trim(guardedReq.amount) # ""

\* canSubmitReal, mutated: a running submission does not disable it
canSubmitReal_whileSubmitting == canPreview /\ (supportsAhToHydra \/ supportsHydraToAh)

canSubmitReal == canPreview /\ (supportsAhToHydra \/ supportsHydraToAh) /\ ~submitting

AppInit ==
  /\ AppStart
  /\ input = <<>>
  /\ result = <<>>
  /\ pc = "none"

\* SendForm's onChange({...value, field}) with value = guardedReq
OnChange ==
  /\ \E next \in
        {[guardedReq EXCEPT !.from = c] : c \in AppChains}
        \cup {[guardedReq EXCEPT !.to = c] : c \in AppChains}
        \cup {[guardedReq EXCEPT !.asset = a] : a \in AppAssets}
        \cup {[guardedReq EXCEPT !.amount = t] : t \in AmountStrings} :
       req' = next
  /\ dryRun' = {}
  /\ UNCHANGED <<serviceFeeEnabled, wallet, selectedAddress, submitting, pcSubmit, call,
                 harnessVars, apiConnected,
                 dispatchLogged>>

OnToggleServiceFee ==
  /\ serviceFeeEnabled' = ~serviceFeeEnabled
  /\ UNCHANGED <<req, wallet, selectedAddress, dryRun, submitting, pcSubmit, call,
                 harnessVars, apiConnected,
                 dispatchLogged>>

OnSelectedAddress ==
  /\ \E a \in Addresses : selectedAddress' = a
  /\ UNCHANGED <<req, serviceFeeEnabled, wallet, dryRun, submitting, pcSubmit, call,
                 harnessVars, apiConnected,
                 dispatchLogged>>

\* setWallet((prev) => ({ ...prev, ...d }))
OnChainData ==
  /\ \E d \in ChainDataUpdates :
       wallet' = [f \in {"balanceDot", "edDot"} |->
                    IF f \in DOMAIN d THEN d[f] ELSE wallet[f]]
  /\ UNCHANGED <<req, serviceFeeEnabled, selectedAddress, dryRun, submitting, pcSubmit,
                 call, harnessVars, apiConnected,
                 dispatchLogged>>

\* the preview button is disabled unless canPreview
OnDryRun ==
  /\ canPreview
  /\ dryRun' = {buildXcmDryRun(guardedReq, feeQuote)}
  /\ UNCHANGED <<req, serviceFeeEnabled, wallet, selectedAddress, submitting, pcSubmit,
                 call, harnessVars, apiConnected,
                 dispatchLogged>>

\* onSubmitReal up to the first await of the submit function it calls; a
\* throw is caught at once and leaves submitting = false.  The submit button
\* is rendered with canSubmitReal, which is false while submitting; beyond
\* that the handler may be called in every state.
OnSubmitReal ==
  /\ ~submitting
  /\ IF canPreview /\ supportsAhToHydra
       THEN /\ submitting' = TRUE
            /\ pcSubmit' = "connecting"
            /\ call' = [route |-> "ahToHydra", req |-> guardedReq, address |-> selectedAddress]
     ELSE IF canPreview /\ supportsHydraToAh
       THEN /\ submitting' = TRUE
            /\ pcSubmit' = "connecting"
            /\ call' = [route |-> "hydraToAh", req |-> guardedReq, address |-> selectedAddress]
     ELSE /\ submitting' = FALSE
          /\ UNCHANGED <<pcSubmit, call>>
  /\ UNCHANGED <<req, serviceFeeEnabled, wallet, selectedAddress, dryRun, harnessVars, apiConnected,
                 dispatchLogged>>

\* connectApiWithFallback resolved with a connected ApiPromise
SubmitConnected ==
  /\ pcSubmit = "connecting"
  /\ pcSubmit' = "preparing"
  /\ apiConnected' = TRUE
  /\ UNCHANGED <<req, serviceFeeEnabled, wallet, selectedAddress, dryRun, submitting, call,
                 harnessVars, dispatchLogged>>

\* every RPC failed: the rejection is caught by onSubmitReal
SubmitConnectFailed ==
  /\ pcSubmit = "connecting"
  /\ pcSubmit' = "idle"
  /\ submitting' = FALSE
  /\ call' = NoCall
  /\ UNCHANGED <<req, serviceFeeEnabled, wallet, selectedAddress, dryRun, harnessVars, apiConnected,
                 dispatchLogged>>

\* web3FromAddress and the metadata query resolved and the parsed amount is
\* positive: tx.signAndSend is called, with dispatchLogged = false
SubmitSignAndSend ==
  /\ pcSubmit = "preparing"
  /\ \E decimals \in AssetDecimals : parseDecimalToInt(call.req.amount, decimals) > 0
  /\ pcSubmit' = "signAndSend"
  /\ dispatchLogged' = FALSE
  /\ UNCHANGED <<req, serviceFeeEnabled, wallet, selectedAddress, dryRun, submitting, call,
                 harnessVars, apiConnected>>

\* web3FromAddress or the metadata query rejected, or "Amount too small":
\* the catch of onSubmitReal resets submitting; the api is not disconnected
SubmitPrepareFailed ==
  /\ pcSubmit = "preparing"
  /\ pcSubmit' = "idle"
  /\ submitting' = FALSE
  /\ call' = NoCall
  /\ UNCHANGED <<req, serviceFeeEnabled, wallet, selectedAddress, dryRun, harnessVars, apiConnected,
                 dispatchLogged>>

\* signAndSend rejected (the signer refused): caught by onSubmitReal
SubmitSignRejected ==
  /\ pcSubmit = "signAndSend"
  /\ pcSubmit' = "idle"
  /\ submitting' = FALSE
  /\ call' = NoCall
  /\ dispatchLogged' = FALSE
  /\ UNCHANGED <<req, serviceFeeEnabled, wallet, selectedAddress, dryRun, harnessVars, apiConnected>>

\* the status callback with a result.dispatchError: logged once
SubmitDispatchError ==
  /\ pcSubmit = "signAndSend"
  /\ ~dispatchLogged
  /\ dispatchLogged' = TRUE
  /\ UNCHANGED <<req, serviceFeeEnabled, wallet, selectedAddress, dryRun, submitting,
                 pcSubmit, call, harnessVars, apiConnected>>

\* the status callback with result.status.isFinalized
SubmitFinalized ==
  /\ pcSubmit = "signAndSend"
  /\ pcSubmit' = "idle"
  /\ submitting' = FALSE
  /\ apiConnected' = FALSE
  /\ call' = NoCall
  /\ dispatchLogged' = FALSE
  /\ UNCHANGED <<req, serviceFeeEnabled, wallet, selectedAddress, dryRun, harnessVars>>

\* the status callback with a last status other than Finalized (Dropped,
\* Invalid, Usurped): it is logged, and no further status arrives
SubmitStreamEnded ==
  /\ pcSubmit = "signAndSend"
  /\ pcSubmit' = "ended"
  /\ UNCHANGED <<req, serviceFeeEnabled, wallet, selectedAddress, dryRun, submitting, call,
                 harnessVars, apiConnected, dispatchLogged>>

AppNext ==
  \/ OnChange
  \/ OnToggleServiceFee
  \/ OnSelectedAddress
  \/ OnChainData
  \/ OnDryRun
  \/ OnSubmitReal
  \/ SubmitConnected
  \/ SubmitConnectFailed
  \/ SubmitSignAndSend
  \/ SubmitPrepareFailed
  \/ SubmitSignRejected
  \/ SubmitDispatchError
  \/ SubmitFinalized
  \/ SubmitStreamEnded

SpecApp == AppInit /\ [][AppNext]_vars

(***************************************************************************)
(* frontend/src/App.tsx, the App component with the DOT request: what a    *)
(* render derives from the request and the wallet data (errors, feeQuote,  *)
(* safe, canDryRun; the last copy of the file names the last canSend).     *)
(* Balances, ED and fees count 0.000001 DOT.                               *)
(***************************************************************************)
MaxSafetyBalance == 12

SafetyInput ==
  [ req : TransferRequest,
    wallet : [ balanceDot : {{}} \cup {{b * Cent} : b \in 0 .. MaxSafetyBalance},
               edDot : WalletEDs ] ]

\* amt = Number(req.amount || "0"); amtNum = Number.isFinite(amt) ? amt : 0,
\* in hundredths of a DOT
amtNum(r) == IF isFinite(toNumber(r.amount)) THEN toNumber(r.amount).val ELSE 0

amountForServiceFeeDot(r) == IF r.asset = "DOT" THEN amtNum(r) ELSE 0

\* quoteFeesDot takes the amount in 0.001 DOT and the network fee in 0.0000001 DOT
feeQuoteDot(r) ==
  LET q == quoteFeesDot(amountForServiceFeeDot(r) * 10, networkFeeDotEst, DEFAULT_SERVICE_FEE)
  IN IF r.asset # "DOT"
       THEN [q EXCEPT !.notes =
               q.notes \o <<"USDC transfer: service fee is currently min-clamped (Phase 1).">>]
       ELSE q

requiredDot(r) ==
  IF r.asset = "DOT" THEN amtNum(r) * Cent + feeQuoteDot(r).totalFeeDot
  ELSE feeQuoteDot(r).totalFeeDot

\* hasWalletNums: bal, ed and feeTotal are all finite
hasWalletNumsDot(w) == w.balanceDot # {} /\ w.edDot # {}

remainingDot(r, w) == Val(w.balanceDot) - requiredDot(r)

safeDot(r, w) == IF hasWalletNumsDot(w) THEN remainingDot(r, w) >= Val(w.edDot) ELSE FALSE

canDryRun(r, w) == validateRequest(r) = <<>> /\ safeDot(r, w)

SafetyInit ==
  /\ input \in SafetyInput
  /\ result = <<>>
  /\ pc = "start"
  /\ AppStart

\* one render of the component
RenderApp ==
  /\ pc = "start"
  /\ result' = [ errors |-> validateRequest(input.req),
                 feeQuote |-> feeQuoteDot(input.req),
                 safe |-> safeDot(input.req, input.wallet),
                 canDryRun |-> canDryRun(input.req, input.wallet) ]
  /\ pc' = "done"
  /\ UNCHANGED <<input, appVars>>

SpecSafety == SafetyInit /\ [][RenderApp]_vars

(***************************************************************************)
(* frontend/src/engine/balances.ts: withTimeout and connectWithFallback.   *)
(*                                                                         *)
(* `input` holds the arguments, `result` the locals of the running call    *)
(* (the loop position i, lastErr), what it returned or threw, and the log  *)
(* of the ApiPromise.create calls it made with the time each attempt       *)
(* took.  A promise is the time after which it settles and how; the case   *)
(* of a promise settling in the very tick of the timer is left out.        *)
(***************************************************************************)
MaxUrls == 3
MaxTimeoutMs == 2

Urls == {"wss://a", "wss://b"}

ErrorMessages == {"refused", "unreachable"}

ConnectInput ==
  [ urls : UNION {[1 .. n -> Urls] : n \in 0 .. MaxUrls},
    timeoutMs : 1 .. MaxTimeoutMs ]

\* what ApiPromise.create({ provider: new WsProvider(url) }) may do
CreatePromises(ms) ==
  [ after : (0 .. ms + 1) \ {ms}, outcome : {"resolved"}, message : {""} ]
  \cup [ after : (0 .. ms + 1) \ {ms}, outcome : {"rejected"}, message : ErrorMessages ]

withTimeout(p, ms) ==
  IF p.after < ms THEN p
  ELSE [after |-> ms, outcome |-> "rejected", message |-> "RPC timeout"]

ConnectStart ==
  [ i |-> 1, lastErr |-> {}, attempts |-> <<>>, returned |-> {}, thrown |-> {} ]

ConnectInit ==
  /\ input \in ConnectInput
  /\ result = ConnectStart
  /\ pc = "loop"
  /\ AppStart

\* the attempt on urls[i] after the promise p was awaited under the timeout
Attempted(p) ==
  Append(result.attempts,
         [ url |-> input.urls[result.i], took |-> withTimeout(p, input.timeoutMs).after,
           outcome |-> withTimeout(p, input.timeoutMs).outcome,
           message |-> withTimeout(p, input.timeoutMs).message ])

\* an iteration whose await resolves: return { api, rpc: url }
AttemptConnected ==
  /\ pc = "loop"
  /\ result.i <= Len(input.urls)
  /\ \E p \in CreatePromises(input.timeoutMs) :
       /\ withTimeout(p, input.timeoutMs).outcome = "resolved"
       /\ result' = [result EXCEPT !.attempts = Attempted(p),
                                   !.returned = {[rpc |-> input.urls[result.i]]}]
  /\ pc' = "done"
  /\ UNCHANGED <<input, appVars>>

\* AttemptFailed, mutated: only the first error is kept
AttemptFailed_keepsFirstError ==
  /\ pc = "loop"
  /\ result.i <= Len(input.urls)
  /\ \E p \in CreatePromises(input.timeoutMs) :
       /\ withTimeout(p, input.timeoutMs).outcome = "rejected"
       /\ result' = [result EXCEPT
                       !.attempts = Attempted(p),
                       !.lastErr = IF result.lastErr = {}
                                     THEN {[message |-> withTimeout(p, input.timeoutMs).message]}
                                     ELSE result.lastErr,
                       !.i = result.i + 1]
  /\ UNCHANGED <<input, pc, appVars>>

\* an iteration whose await rejects, by the connection or by the timer:
\* catch (e) { lastErr = e }
AttemptFailed ==
  /\ pc = "loop"
  /\ result.i <= Len(input.urls)
  /\ \E p \in CreatePromises(input.timeoutMs) :
       /\ withTimeout(p, input.timeoutMs).outcome = "rejected"
       /\ result' = [result EXCEPT
                       !.attempts = Attempted(p),
                       !.lastErr = {[message |-> withTimeout(p, input.timeoutMs).message]},
                       !.i = result.i + 1]
  /\ UNCHANGED <<input, pc, appVars>>

\* after the loop: throw new Error(lastErr?.message ?? String(lastErr ?? "All RPC endpoints failed"))
AllFailed ==
  /\ pc = "loop"
  /\ result.i > Len(input.urls)
  /\ result' = [result EXCEPT
                  !.thrown = IF result.lastErr # {} THEN {Val(result.lastErr).message}
                             ELSE {"All RPC endpoints failed"}]
  /\ pc' = "done"
  /\ UNCHANGED <<input, appVars>>

ConnectNext == AttemptConnected \/ AttemptFailed \/ AllFailed

SpecConnect == ConnectInit /\ [][ConnectNext]_vars

(***************************************************************************)
(* frontend/src/engine/balances.ts: the four chain probes and              *)
(* probeAllChains.  `result` holds, for every chain, the position of its   *)
(* probe, its locals (api, conn.rpc, free, ed, each while it is in use),   *)
(* the snapshot it is about to return and the state of its promise, and    *)
(* the state of probeAllChains' own promise.  The ts field of a snapshot   *)
(* (Date.now()) is left out; a                                             *)
(* balance is the integer a BigInt holds, a formatted balance the count    *)
(* of 0.000001 units that fmtBigintFixed6 spells.                          *)
(***************************************************************************)
MaxProbeFree == 1

ChainId == {"assethub", "hydradx", "relay", "people"}

ProbeInput == [address : {"5Alice"}, hdxSymbol : {{}, {"xHDX"}}]

\* the balances a chain may report, in its smallest unit
ProbeFrees == {f * 15000 : f \in 0 .. MaxProbeFree}

\* api.consts.balances.existentialDeposit, in the chain's smallest unit
ProbeEDs == {100000}

\* the endpoint connectWithFallback may have connected to
ProbeRpcs == {"wss://a"}

\* the message of the error connectWithFallback throws
ConnectErrors == {"RPC timeout"}

\* the message of the error a query rejects with
QueryErrors == {"query failed"}

nativeSymbol(c, in) ==
  IF c = "hydradx" THEN (IF in.hdxSymbol # {} THEN Val(in.hdxSymbol) ELSE "HDX") ELSE "DOT"

nativeDecimals(c) == IF c = "hydradx" THEN 12 ELSE 10

\* fmtBigintFixed6: six decimals, rounded down
fmtBigintFixed6(value, decimals) ==
  IF decimals >= 6 THEN value \div 10 ^ (decimals - 6) ELSE value * 10 ^ (6 - decimals)

\* { ...snapBase(), error }
failSnapshot(c, in, message) ==
  [ chain |-> c, nativeSymbol |-> nativeSymbol(c, in), nativeDecimals |-> nativeDecimals(c),
    nativeFree |-> {}, ed |-> {}, tokens |-> {}, ok |-> FALSE,
    error |-> {message}, rpc |-> {} ]

\* the snapshot a probe returns from its try block
okSnapshot(c, in, free, ed, tokens, rpc) ==
  [ chain |-> c, nativeSymbol |-> nativeSymbol(c, in), nativeDecimals |-> nativeDecimals(c),
    nativeFree |-> {fmtBigintFixed6(free, nativeDecimals(c))},
    ed |-> {fmtBigintFixed6(ed, nativeDecimals(c))},
    tokens |-> {tokens}, ok |-> TRUE, error |-> {}, rpc |-> {rpc} ]

ProbeStart ==
  [ at |-> "connecting", api |-> FALSE, rpc |-> "", free |-> 0, ed |-> 0,
    returning |-> {}, promise |-> "pending", value |-> {} ]

ProbeInit ==
  /\ input \in ProbeInput
  /\ result = [probes |-> [c \in ChainId |-> ProbeStart], promise |-> "pending", value |-> <<>>]
  /\ pc = "probing"
  /\ AppStart

\* the result with the probe of chain c replaced
WithProbe(c, pr) == [result EXCEPT !.probes[c] = pr]

\* connectWithFallback resolved: api = conn.api
ProbeConnected ==
  /\ \E c \in ChainId, url \in ProbeRpcs :
       /\ result.probes[c].at = "connecting"
       /\ result' = WithProbe(c, [result.probes[c] EXCEPT
                                    !.at = "native", !.api = TRUE, !.rpc = url])
  /\ UNCHANGED <<input, pc, appVars>>

\* connectWithFallback threw: the catch block returns the failure snapshot
ProbeConnectFailed ==
  /\ \E c \in ChainId, e \in ConnectErrors :
       /\ result.probes[c].at = "connecting"
       /\ result' = WithProbe(c, [result.probes[c] EXCEPT
                                    !.at = "finally",
                                    !.returning = {failSnapshot(c, input, e)}])
  /\ UNCHANGED <<input, pc, appVars>>

\* system.account and the ED constant were read; relay, people and a Hydra
\* runtime without tokens.accounts return here
ProbeNativeRead ==
  /\ \E c \in ChainId, free \in ProbeFrees, ed \in ProbeEDs, hasTokens \in BOOLEAN :
       /\ result.probes[c].at = "native"
       /\ c = "assethub" => hasTokens
       /\ c \in {"relay", "people"} => ~hasTokens
       /\ result' = WithProbe(c,
            IF hasTokens
              THEN [result.probes[c] EXCEPT !.at = "tokens", !.free = free, !.ed = ed]
              ELSE [result.probes[c] EXCEPT
                      !.at = "finally",
                      !.returning =
                        {okSnapshot(c, input, free, ed, {}, result.probes[c].rpc)}])
  /\ UNCHANGED <<input, pc, appVars>>

\* the USDC and USDT balances (and, on Asset Hub, their metadata) were read
ProbeTokensRead ==
  /\ \E c \in ChainId :
       /\ result.probes[c].at = "tokens"
       /\ result' = WithProbe(c, [result.probes[c] EXCEPT
                                    !.at = "finally", !.free = 0, !.ed = 0,
                                    !.returning =
                                      {okSnapshot(c, input, result.probes[c].free,
                                                  result.probes[c].ed, {"USDC", "USDT"},
                                                  result.probes[c].rpc)}])
  /\ UNCHANGED <<input, pc, appVars>>

\* ProbeQueryFailed, mutated: the probe has no catch block
ProbeQueryFailed_uncaught ==
  /\ \E c \in ChainId, e \in QueryErrors :
       /\ result.probes[c].at \in {"native", "tokens"}
       /\ result' = WithProbe(c, [result.probes[c] EXCEPT
                                    !.at = "finally", !.free = 0, !.ed = 0,
                                    !.promise = "rejected"])
  /\ UNCHANGED <<input, pc, appVars>>

\* a query rejected or its answer could not be read: the catch block
\* returns the failure snapshot
ProbeQueryFailed ==
  /\ \E c \in ChainId, e \in QueryErrors :
       /\ result.probes[c].at \in {"native", "tokens"}
       /\ result' = WithProbe(c, [result.probes[c] EXCEPT
                                    !.at = "finally", !.free = 0, !.ed = 0,
                                    !.returning = {failSnapshot(c, input, e)}])
  /\ UNCHANGED <<input, pc, appVars>>

\* finally { try { await api?.disconnect(); } catch {} }: the probe's
\* promise resolves with the snapshot, whether disconnect threw or not
ProbeFinally ==
  /\ \E c \in ChainId :
       /\ result.probes[c].at = "finally"
       /\ result' = WithProbe(c, [result.probes[c] EXCEPT
                                    !.at = "settled", !.api = FALSE, !.rpc = "",
                                    !.returning = {},
                                    !.promise = IF result.probes[c].returning # {}
                                                  THEN "resolved" ELSE "rejected",
                                    !.value = result.probes[c].returning])
  /\ UNCHANGED <<input, pc, appVars>>

\* Promise.all of the four probes resolved: return [ah, hy, re, pe]
ProbeAllChainsResolved ==
  /\ pc = "probing"
  /\ \A c \in ChainId : result.probes[c].promise = "resolved"
  /\ result' = [result EXCEPT
                  !.promise = "resolved",
                  !.value = << Val(result.probes["assethub"].value),
                               Val(result.probes["hydradx"].value),
                               Val(result.probes["relay"].value),
                               Val(result.probes["people"].value) >>]
  /\ pc' = "done"
  /\ UNCHANGED <<input, appVars>>

ProbeNext ==
  \/ ProbeConnected
  \/ ProbeConnectFailed
  \/ ProbeNativeRead
  \/ ProbeTokensRead
  \/ ProbeQueryFailed
  \/ ProbeFinally
  \/ ProbeAllChainsResolved

SpecProbe == ProbeInit /\ [][ProbeNext]_vars

(***************************************************************************)
(* frontend/src/WalletPanel.tsx: one run of the connectAndSubscribe        *)
(* effect and its cleanup, which React calls when chain or selected        *)
(* changes.  `input` holds chain and selected, `result` the closure of     *)
(* the effect (api, unsubNative, unsubUsdc, cancelled), the position of    *)
(* connectAndSubscribe, the balance and ED the parent holds through        *)
(* onChainData, and whether an update reached the parent after the         *)
(* cleanup.  A disconnected api delivers no further message.               *)
(***************************************************************************)
EffectInput == [chain : AppChains, selected : Addresses \cup {""}]

\* connectAndSubscribe up to its first await; the parent was sent
\* { balanceDot: undefined, edDot: undefined }
EffectStart(in) ==
  [ at |-> IF in.selected = "" THEN "returned" ELSE "connecting",
    api |-> "null", unsubNative |-> "unset", unsubUsdc |-> "unset",
    cancelled |-> FALSE,
    parent |-> [balanceDot |-> {}, edDot |-> {}],
    lateUpdate |-> FALSE ]

EffectInit ==
  /\ input \in EffectInput
  /\ result = EffectStart(input)
  /\ pc = "mounted"
  /\ AppStart

\* an endpoint connected: api is assigned; if (cancelled) return; the ED
\* constant, when the chain has one, is sent to the parent
EffectConnected ==
  /\ result.at = "connecting"
  /\ \E ed \in WalletEDs :
       result' =
         IF result.cancelled
           THEN [result EXCEPT !.api = "connected", !.at = "returned"]
           ELSE [result EXCEPT !.api = "connected", !.at = "subscribingNative",
                               !.parent.edDot = IF ed # {} THEN ed ELSE @]
  /\ UNCHANGED <<input, pc, appVars>>

\* every endpoint failed: setStatusN("All RPC endpoints failed."); return
EffectConnectFailed ==
  /\ result.at = "connecting"
  /\ result' = [result EXCEPT !.at = "returned"]
  /\ UNCHANGED <<input, pc, appVars>>

\* await api.query.system.account(selected, cb) resolved
EffectNativeSubscribed ==
  /\ result.at = "subscribingNative"
  /\ result.api = "connected"
  /\ result' = [result EXCEPT !.unsubNative = "active", !.at = "subscribingUsdc"]
  /\ UNCHANGED <<input, pc, appVars>>

\* the callback of the native subscription: onChainData({ status, balanceDot })
NativeBalanceCallback ==
  /\ result.api = "connected"
  /\ \/ result.at = "subscribingNative"
     \/ result.unsubNative = "active"
  /\ \E b \in WalletBalances \ {{}} :
       result' = [result EXCEPT !.parent.balanceDot = b,
                                !.lateUpdate = @ \/ result.cancelled]
  /\ UNCHANGED <<input, pc, appVars>>

\* the USDC metadata was read and the USDC subscription resolved
EffectUsdcSubscribed ==
  /\ result.at = "subscribingUsdc"
  /\ result.api = "connected"
  /\ result' = [result EXCEPT !.unsubUsdc = "active", !.at = "live"]
  /\ UNCHANGED <<input, pc, appVars>>

\* an awaited query rejected: catch (e) { setStatusN("RPC error: ...") }
EffectQueryFailed ==
  /\ result.at \in {"subscribingNative", "subscribingUsdc"}
  /\ result' = [result EXCEPT !.at = "returned"]
  /\ UNCHANGED <<input, pc, appVars>>

\* the cleanup of the effect
EffectCleanup ==
  /\ pc = "mounted"
  /\ result' = [result EXCEPT
                  !.cancelled = TRUE,
                  !.unsubNative = IF @ = "active" THEN "unsubscribed" ELSE @,
                  !.unsubUsdc = IF @ = "active" THEN "unsubscribed" ELSE @,
                  !.api = IF @ = "connected" THEN "disconnected" ELSE @]
  /\ pc' = "cleaned"
  /\ UNCHANGED <<input, appVars>>

EffectNext ==
  \/ EffectConnected
  \/ EffectConnectFailed
  \/ EffectNativeSubscribed
  \/ NativeBalanceCallback
  \/ EffectUsdcSubscribed
  \/ EffectQueryFailed
  \/ EffectCleanup

SpecWallet == EffectInit /\ [][EffectNext]_vars

(***************************************************************************)
(* Vocabulary of the properties.                                           *)
(***************************************************************************)
Done == pc = "done"

FiniteAmount == input.amount.kind = "finite"

\* a DOT teleport from assethub into relay or people
BootstrapRoute ==
  input.asset = "DOT" /\ input.from = "assethub" /\ input.to \in {"relay", "people"}

\* the free balance and the ED of the destination of a bootstrap route
DestFree == IF input.to = "relay" THEN input.relayFreeDot ELSE input.peopleFreeDot

DestED == IF input.to = "relay" THEN input.relayEDDot ELSE input.peopleEDDot

\* the input with the destination's snapshot replaced
WithDestSnapshot(in, free, ed) ==
  IF in.to = "relay"
    THEN [in EXCEPT !.relayFreeDot = {free}, !.relayEDDot = {ed}]
    ELSE [in EXCEPT !.peopleFreeDot = {free}, !.peopleEDDot = {ed}]

BelowED == BootstrapRoute /\ DestFree # {} /\ DestED # {} /\ Val(DestFree) < Val(DestED)

AtOrAboveED == BootstrapRoute /\ DestFree # {} /\ DestED # {} /\ Val(DestFree) >= Val(DestED)

StableRoute ==
  /\ input.asset \in {"USDC", "USDT"}
  /\ <<input.from, input.to>> \in {<<"assethub", "hydradx">>, <<"hydradx", "assethub">>}

\* the capability classes, and membership of (asset, from, to, mode) in one
Classes == {CAPABILITIES.stablecoin, CAPABILITIES.dotTeleport, CAPABILITIES.dotExecuteAdvanced}

InClass(c, asset, from, to, modes) ==
  /\ asset \in c.assets
  /\ \E i \in 1 .. Len(c.routes) :
       c.routes[i].from = from /\ c.routes[i].to = to /\ c.routes[i].mode \in modes

(***************************************************************************)
(* C1. Missing-snapshot safety: a DOT teleport assethub -> relay or        *)
(* assethub -> people called with the destination's free balance or ED     *)
(* undefined is rejected for every amount.                                 *)
(***************************************************************************)
C1_MissingSnapshotFails ==
  (Done /\ BootstrapRoute /\ (DestFree = {} \/ DestED = {})) => ~result.ok

(***************************************************************************)
(* C2. Advanced-experimental class: DOT assethub -> hydradx passes with    *)
(* mode dot_execute_advanced for every amount in [0.05, 0.50], bounds      *)
(* included, and is hard-rejected for every amount outside it.             *)
(***************************************************************************)
C2_AdvancedRange ==
  (Done /\ input.asset = "DOT" /\ input.from = "assethub" /\ input.to = "hydradx"
        /\ FiniteAmount)
  => IF input.amount.val >= 5 /\ input.amount.val <= 50
       THEN result.ok /\ result.mode = {"dot_execute_advanced"}
       ELSE ~result.ok /\ result.hardBlock

(***************************************************************************)
(* C3. Output contract: every result with ok = false has hardBlock = true. *)
(***************************************************************************)
C3_FailIsHardBlock == (Done /\ ~result.ok) => result.hardBlock

C3_Witness == Done /\ ~result.ok /\ result.hardBlock /\ result.minRequired # {}

(***************************************************************************)
(* C4. A request with from = to is rejected with hardBlock, whatever the   *)
(* asset, the amount and the snapshots.                                    *)
(***************************************************************************)
C4_SameChainRejected == (Done /\ input.from = input.to) => (~result.ok /\ result.hardBlock)

C4_Witness ==
  /\ Done /\ input.from = input.to /\ input.asset = "DOT"
  /\ input.amount = Num(10) /\ input.relayFreeDot # {}
  /\ ~result.ok

(***************************************************************************)
(* C5. An amount that is <= 0, or not finite, is rejected with hardBlock,  *)
(* whatever the asset and the route.                                       *)
(***************************************************************************)
C5_NonPositiveRejected ==
  (Done /\ (~FiniteAmount \/ input.amount.val <= 0)) => (~result.ok /\ result.hardBlock)

C5_Witness ==
  /\ Done /\ input.amount = PosInfinity /\ StableRoute
  /\ ~result.ok /\ result.hardBlock

(***************************************************************************)
(* C6. Stable-value class: USDC or USDT on assethub <-> hydradx is         *)
(* rejected for every amount below 0.10 and passes with mode               *)
(* stable_reserve for 0.10 and every larger (finite) amount.               *)
(***************************************************************************)
C6_StableMinimum ==
  (Done /\ StableRoute /\ FiniteAmount)
  => IF input.amount.val < 10
       THEN ~result.ok
       ELSE result.ok /\ result.mode = {"stable_reserve"}

C6_Witness ==
  /\ Done /\ StableRoute /\ input.amount = Num(10)
  /\ result.ok /\ result.mode = {"stable_reserve"}

(***************************************************************************)
(* C7. Bootstrap rule, as claimed: into a destination below ED every       *)
(* (positive) amount under minRequired = (ED - free) + 0.01 + 0.05 is      *)
(* rejected with that minRequired in the result, every amount from         *)
(* minRequired upwards passes with mode dot_teleport.                      *)
(***************************************************************************)
C7_BootstrapAsClaimed ==
  (Done /\ BelowED /\ FiniteAmount /\ input.amount.val > 0)
  => LET m == (Val(DestED) - Val(DestFree)) + 1 + 5 IN
     IF input.amount.val < m
       THEN ~result.ok /\ result.minRequired = {m}
       ELSE result.ok /\ result.mode = {"dot_teleport"}

(***************************************************************************)
(* C7, amended. Into a destination below ED every amount under             *)
(* minRequired = (ED - free) + 0.01 + 0.05 is rejected, and the result     *)
(* carries that minRequired when the amount is at least the teleport       *)
(* minimum 0.05 (below 0.05 the result carries no minRequired); every      *)
(* amount from minRequired upwards passes with mode dot_teleport.          *)
(***************************************************************************)
C7_BootstrapRule ==
  (Done /\ BelowED /\ FiniteAmount)
  => LET m == (Val(DestED) - Val(DestFree)) + 1 + 5 IN
     IF input.amount.val < m
       THEN /\ ~result.ok
            /\ result.minRequired = IF input.amount.val >= 5 THEN {m} ELSE {}
       ELSE result.ok /\ result.mode = {"dot_teleport"}

\* Scenario A: amount 0.05, free 0, ED 0.01: minRequired 0.07, rejected
C7_Witness ==
  /\ Done /\ BelowED /\ input.amount = Num(5)
  /\ DestFree = {0} /\ DestED = {1}
  /\ ~result.ok /\ result.minRequired = {7}

(***************************************************************************)
(* C8. Bootstrap monotonicity: when a minRequired is reported, (a) a       *)
(* snapshot of the destination with a larger (ED - free) reports a         *)
(* strictly larger minRequired for the same request, and (b) with the      *)
(* snapshot fixed the request passes for exactly the amounts >= the        *)
(* reported minRequired.                                                   *)
(***************************************************************************)
C8_BootstrapMonotone ==
  (Done /\ BelowED /\ result.minRequired # {})
  => LET m == Val(result.minRequired) IN
     /\ \A f \in 0 .. MaxFree, e \in 0 .. MaxED :
          (f < e /\ e - f > Val(DestED) - Val(DestFree))
          => LET r == guardRoute(WithDestSnapshot(input, f, e)) IN
             ~r.ok /\ r.minRequired # {} /\ Val(r.minRequired) > m
     /\ \A a \in -1 .. MaxAmount :
          guardRoute([input EXCEPT !.amount = Num(a)]).ok <=> a >= m

C8_Witness ==
  /\ Done /\ BelowED /\ result.minRequired # {}
  /\ DestFree = {1} /\ DestED = {2}
  /\ input.amount = Num(6)

(***************************************************************************)
(* C9. Into a destination whose snapshot has free >= ED no bootstrap       *)
(* constraint applies: the request passes, with mode dot_teleport, if and  *)
(* only if the amount is at least 0.05, and no minRequired is reported.    *)
(***************************************************************************)
C9_NoBootstrapAtOrAboveED ==
  (Done /\ AtOrAboveED /\ FiniteAmount)
  => /\ result.ok <=> input.amount.val >= 5
     /\ result.ok => result.mode = {"dot_teleport"}
     /\ result.minRequired = {}

C9_Witness ==
  /\ Done /\ AtOrAboveED /\ DestFree = DestED /\ Val(DestED) > 0
  /\ input.amount = Num(5) /\ result.ok

(***************************************************************************)
(* C10. The capability table decides: a passing result names a mode, and   *)
(* the asset belongs to a class whose routes hold (from, to, that mode);   *)
(* an (asset, from, to) that is in no class is rejected with hardBlock.    *)
(***************************************************************************)
C10_TableIsAuthority ==
  Done =>
    /\ result.ok =>
         /\ result.mode # {}
         /\ \E c \in Classes :
              InClass(c, input.asset, input.from, input.to, result.mode)
    /\ (~ \E c \in Classes : InClass(c, input.asset, input.from, input.to, RouteMode))
         => (~result.ok /\ result.hardBlock)

C10_Witness ==
  /\ Done /\ input.asset = "USDC" /\ input.from = "assethub" /\ input.to = "relay"
  /\ input.amount = Num(20) /\ ~result.ok /\ result.hardBlock

(***************************************************************************)
(* C11. validateRequest returns the empty list exactly when from # to,     *)
(* the amount is numeric and > 0, the asset is supported and both chains   *)
(* are supported; an empty, non-numeric, zero or negative amount gives an  *)
(* error.                                                                  *)
(***************************************************************************)
C11_ValidIffNoErrors ==
  Done =>
    (result = <<>>
       <=> /\ input.from # input.to
           /\ input.amount # ""
           /\ toNumber(input.amount).kind # "NaN"
           /\ ~leqZero(toNumber(input.amount))
           /\ input.asset \in {"DOT", "USDC_AH", "USDC_HYDRA"}
           /\ input.from \in {"assethub", "hydradx"}
           /\ input.to \in {"assethub", "hydradx"})

(***************************************************************************)
(* Vocabulary of the fee properties: the unclamped fee amount * pct and    *)
(* its value clamped to [minDot, maxDot], both before rounding.            *)
(***************************************************************************)
UnclampedFee == input.amountDot * input.clamp.pct

ClampedFee ==
  IF UnclampedFee < input.clamp.minDot THEN input.clamp.minDot
  ELSE IF UnclampedFee > input.clamp.maxDot THEN input.clamp.maxDot
  ELSE UnclampedFee

ValidClamp == input.clamp.minDot <= input.clamp.maxDot

(***************************************************************************)
(* C12. For a clamp with minFee <= maxFee the service fee of the quote is  *)
(* amount * pct clamped to [minFee, maxFee], rounded to six digits: never  *)
(* below minFee and never above maxFee.                                    *)
(***************************************************************************)
C12_ServiceFeeClamped ==
  (Done /\ ValidClamp)
  => /\ result.serviceFeeDot = toFixed6(ClampedFee)
     /\ result.serviceFeeDot >= toFixed6(input.clamp.minDot)
     /\ result.serviceFeeDot <= toFixed6(input.clamp.maxDot)

\* default clamp, 140 DOT: 0.21 DOT unclamped, 0.200000 quoted
C12_Witness ==
  /\ Done /\ input.clamp = DEFAULT_SERVICE_FEE /\ input.amountDot = 140 * Dot
  /\ UnclampedFee = 2100000 /\ result.serviceFeeDot = 200000

(***************************************************************************)
(* C13. For a clamp with minFee <= maxFee the notes hold the minimum note  *)
(* exactly when amount * pct < minFee, the maximum note exactly when       *)
(* amount * pct > maxFee, and nothing when the unclamped fee lies in       *)
(* [minFee, maxFee], bounds included.                                      *)
(***************************************************************************)
C13_ClampNotes ==
  (Done /\ ValidClamp)
  => result.notes =
       (IF UnclampedFee < input.clamp.minDot
          THEN <<"Service fee clamped to minimum">> ELSE <<>>)
       \o (IF UnclampedFee > input.clamp.maxDot
             THEN <<"Service fee clamped to maximum">> ELSE <<>>)

\* an unclamped fee exactly on the minimum: no note
C13_Witness ==
  /\ Done /\ ValidClamp /\ input.clamp.minDot > 0
  /\ UnclampedFee = input.clamp.minDot /\ result.notes = <<>>

(***************************************************************************)
(* C14. The total fee of every quote is the supplied network fee estimate  *)
(* plus the clamped service fee, rounded to six digits; when the network   *)
(* fee has no more than six digits the quoted total is the sum of the      *)
(* quoted network fee and the quoted service fee.                          *)
(***************************************************************************)
C14_TotalIsNetworkPlusService ==
  Done =>
    LET s1 == IF UnclampedFee < input.clamp.minDot THEN input.clamp.minDot ELSE UnclampedFee
        s == IF s1 > input.clamp.maxDot THEN input.clamp.maxDot ELSE s1
    IN /\ result.totalFeeDot = toFixed6(input.networkFeeDotEst + s)
       /\ input.networkFeeDotEst % 10 = 0
            => result.totalFeeDot = result.networkFeeDotEst + result.serviceFeeDot

\* the quote of the App: 0.012 + 0.02 = 0.032
C14_Witness ==
  /\ Done /\ input.clamp = DEFAULT_SERVICE_FEE /\ input.amountDot = 0
  /\ input.networkFeeDotEst = 120000
  /\ result.serviceFeeDot = 20000 /\ result.totalFeeDot = 32000

C16_TeleportSentinel ==
  (Done /\ input.mode = "dot_teleport")
  => /\ result.networkFeeDotEst \notin Int
     /\ result.serviceFeeDot \notin Int
     /\ result.totalFeeDot \notin Int
     /\ result.notes # <<>>

(***************************************************************************)
(* C17. The preview's route is "direct" exactly when from or to is         *)
(* assethub, and "via Asset Hub" otherwise.                                *)
(***************************************************************************)
C17_RouteClassification ==
  Done =>
    IF input.req.from = "assethub" \/ input.req.to = "assethub"
      THEN result.route = "direct"
      ELSE result.route = "via Asset Hub"

C17_Witness ==
  /\ Done /\ input.req.from = "hydradx" /\ input.req.to = "assethub"
  /\ result.route = "direct"

(***************************************************************************)
(* C18. The preview's WithdrawAsset and DepositAsset carry the request's   *)
(* asset and amount (withdrawn from request.from, deposited to             *)
(* request.to), BuyExecution carries feeQuote.totalFeeDot, the top-level   *)
(* from, to, asset, amount and fees are the inputs, and the call leaves    *)
(* the request and the fee quote as they were.                             *)
(***************************************************************************)
C18_PreviewCarriesInputs ==
  /\ [](Done =>
          /\ result.xcm.WithdrawAsset =
               [asset |-> input.req.asset, amount |-> input.req.amount, from |-> input.req.from]
          /\ result.xcm.DepositAsset =
               [asset |-> input.req.asset, amount |-> input.req.amount, to |-> input.req.to]
          /\ result.xcm.BuyExecution.fees = input.fee.totalFeeDot
          /\ result.from = input.req.from /\ result.to = input.req.to
          /\ result.asset = input.req.asset /\ result.amount = input.req.amount
          /\ result.fees = input.fee)
  /\ [][input' = input]_vars

C18_Witness ==
  /\ Done /\ input.req.from = "assethub" /\ input.req.to = "people"
  /\ input.req.asset = "DOT" /\ input.req.amount = "0.05"
  /\ result.xcm.DepositAsset.to = "people" /\ result.xcm.BuyExecution.fees = 32000

(***************************************************************************)
(* C19. Real submission is enabled only if validateRequest reports no      *)
(* error for the current (guarded) request and an account address is       *)
(* selected, and onSubmitReal has called signAndSend only for a request    *)
(* without errors and a selected address.                                  *)
(***************************************************************************)
C19_SubmitNeedsValidAndAddress ==
  /\ canSubmitReal => (validateRequest(guardedReq) = <<>> /\ selectedAddress # "")
  /\ pcSubmit = "signAndSend"
       => (validateRequest(call.req) = <<>> /\ call.address \in Addresses)

C19_Witness ==
  /\ pcSubmit = "signAndSend" /\ call.req.asset = "USDC_HYDRA" /\ call.address = "5Bob"
  /\ req.amount = "0" /\ ~canSubmitReal

(***************************************************************************)
(* C20. USDT is transferable like USDC: for a USDT_AH request from         *)
(* assethub to hydradx, or a USDT_HYDRA request from hydradx to assethub,  *)
(* with a positive amount, a selected address, a safe wallet balance and   *)
(* no submission running, real submission is enabled.                      *)
(***************************************************************************)
C20_UsdtSubmitEnabled ==
  ( /\ \/ guardedReq.asset = "USDT_AH" /\ guardedReq.from = "assethub"
            /\ guardedReq.to = "hydradx"
       \/ guardedReq.asset = "USDT_HYDRA" /\ guardedReq.from = "hydradx"
            /\ guardedReq.to = "assethub"
    /\ guardedReq.amount \in {"0.05", "1"}
    /\ selectedAddress # ""
    /\ safe
    /\ ~submitting )
  => canSubmitReal

(***************************************************************************)
(* C24. validateRequest does not short-circuit: its result is the fixed    *)
(* sequence of the four messages (same-chain, amount, asset, chain) with   *)
(* the messages of the checks that are not violated left out, so its       *)
(* length is the number of violated checks.                                *)
(***************************************************************************)
C24_Violated ==
  << input.from = input.to,
     input.amount = "" \/ leqZero(toNumber(input.amount)),
     input.asset \notin {"DOT", "USDC_AH", "USDC_HYDRA"},
     input.from \notin {"assethub", "hydradx"} \/ input.to \notin {"assethub", "hydradx"} >>

C24_Messages ==
  << "From and To chains must be different.",
     "Amount must be greater than zero.",
     "Unsupported asset (Phase 0/1).",
     "Unsupported chain (Phase 0/1)." >>

C24_OneErrorPerViolatedCheck ==
  Done =>
    /\ Len(result) = Cardinality({i \in 1 .. 4 : C24_Violated[i]})
    /\ \E pos \in [1 .. Len(result) -> 1 .. 4] :
         /\ \A i \in 1 .. Len(result) : result[i] = C24_Messages[pos[i]] /\ C24_Violated[pos[i]]
         /\ \A i, j \in 1 .. Len(result) : i < j => pos[i] < pos[j]

C24_Witness ==
  /\ Done /\ input.from = "relay" /\ input.to = "relay"
  /\ input.amount = "0" /\ input.asset = "USDT_AH"
  /\ result = C24_Messages

(***************************************************************************)
(* C25. The bootstrap rule looks only at the destination's own snapshot:   *)
(* the result for assethub -> relay does not change with the people        *)
(* snapshot, the result for assethub -> people does not change with the    *)
(* relay snapshot, and the results for relay -> assethub, people ->        *)
(* assethub and every stablecoin request do not change with any snapshot   *)
(* field.                                                                  *)
(***************************************************************************)
SnapshotFree == {{}} \cup {{n} : n \in 0 .. MaxFree}

SnapshotED == {{}} \cup {{n} : n \in 0 .. MaxED}

WithRelaySnapshot(in, free, ed) == [in EXCEPT !.relayFreeDot = free, !.relayEDDot = ed]

WithPeopleSnapshot(in, free, ed) == [in EXCEPT !.peopleFreeDot = free, !.peopleEDDot = ed]

C25_OwnSnapshotOnly ==
  Done =>
    /\ (input.from = "assethub" /\ input.to = "relay")
         => \A f \in SnapshotFree, e \in SnapshotED :
              guardRoute(WithPeopleSnapshot(input, f, e)) = result
    /\ (input.from = "assethub" /\ input.to = "people")
         => \A f \in SnapshotFree, e \in SnapshotED :
              guardRoute(WithRelaySnapshot(input, f, e)) = result
    /\ (\/ input.from \in {"relay", "people"} /\ input.to = "assethub"
        \/ input.asset \in {"USDC", "USDT"})
         => \A f \in SnapshotFree, e \in SnapshotED :
              /\ guardRoute(WithPeopleSnapshot(input, f, e)) = result
              /\ guardRoute(WithRelaySnapshot(input, f, e)) = result

\* a teleport into relay that passes while the people snapshot alone would block it
C25_Witness ==
  /\ Done /\ input.asset = "DOT" /\ input.from = "assethub" /\ input.to = "relay"
  /\ input.amount = Num(5)
  /\ input.relayFreeDot = {1} /\ input.relayEDDot = {1}
  /\ input.peopleFreeDot = {0} /\ input.peopleEDDot = {2}
  /\ result.ok

(***************************************************************************)
(* C30. A passing result has hardBlock = false, a mode and no minRequired; *)
(* a minRequired appears only in a failed result of the bootstrap rule     *)
(* (a DOT teleport from assethub into a destination below ED), and the     *)
(* amount is then below it.                                                *)
(***************************************************************************)
C30_ResultShape ==
  Done =>
    /\ result.ok => (~result.hardBlock /\ result.mode # {} /\ result.minRequired = {})
    /\ result.minRequired # {}
         => /\ ~result.ok
            /\ BelowED
            /\ result.reason \in {"Relay account is below ED.", "People account is below ED."}
            /\ jsLt(input.amount, Val(result.minRequired))

C30_Witness ==
  /\ Done /\ BelowED /\ input.to = "people" /\ input.amount = Num(7)
  /\ DestFree = {0} /\ DestED = {2}
  /\ ~result.ok /\ result.minRequired = {8}

(***************************************************************************)
(* C26. A stored dry-run preview is current: its from, to, asset and       *)
(* amount are those of the current (guarded) request and its fees are the  *)
(* current fee quote.                                                      *)
(***************************************************************************)
C26_PreviewIsCurrent ==
  dryRun # {} =>
    LET p == Val(dryRun) IN
    /\ [from |-> p.from, to |-> p.to, asset |-> p.asset, amount |-> p.amount] = guardedReq
    /\ p.fees = feeQuote
    /\ p.xcm.BuyExecution.fees = feeQuote.totalFeeDot

(***************************************************************************)
(* C27. At most one real submission is in flight: while a call of          *)
(* onSubmitReal is between its start and its end, submitting is true, and  *)
(* whenever submitting is true canSubmitReal is false.                     *)
(***************************************************************************)
C27_OneSubmissionInFlight ==
  /\ pcSubmit # "idle" => submitting
  /\ submitting => ~canSubmitReal

\* a submission waits in signAndSend while the form again holds a request
\* that could be submitted
C27_Witness ==
  /\ pcSubmit = "signAndSend" /\ submitting
  /\ canPreview /\ supportsHydraToAh /\ call.route = "ahToHydra"
  /\ ~canSubmitReal

(***************************************************************************)
(* C28. A real submission that is over (finalized, failed, or its status   *)
(* stream ended without Finalized) has reset submitting to false and has   *)
(* released its API connection.                                            *)
(***************************************************************************)
C28_SubmissionReleases ==
  pcSubmit \in {"idle", "ended"} => (~submitting /\ ~apiConnected)

(***************************************************************************)
(* C21. Existential-deposit protection: the preview/send action is         *)
(* enabled only if the wallet's balance and ED are known and the balance   *)
(* left after the outflow (the amount plus the total fee for DOT, the      *)
(* total fee alone for another asset) is at least ED; without wallet data  *)
(* the action is disabled.                                                 *)
(***************************************************************************)
C21_EDProtection ==
  (Done /\ result.canDryRun)
  => /\ input.wallet.balanceDot # {} /\ input.wallet.edDot # {}
     /\ IF input.req.asset = "DOT"
          THEN /\ isFinite(toNumber(input.req.amount))
               /\ Val(input.wallet.balanceDot)
                    - (toNumber(input.req.amount).val * Cent + result.feeQuote.totalFeeDot)
                  >= Val(input.wallet.edDot)
          ELSE Val(input.wallet.balanceDot) - result.feeQuote.totalFeeDot
                 >= Val(input.wallet.edDot)

(***************************************************************************)
(* C22. connectWithFallback tries the endpoints strictly in list order,    *)
(* each attempt taking at most the timeout; it returns the first endpoint  *)
(* that connects and tries none after it; it throws only after every       *)
(* endpoint of the list has failed, with the last error's message.         *)
(***************************************************************************)
C22_FallbackInOrder ==
  LET log == result.attempts IN
  /\ \A k \in 1 .. Len(log) :
       /\ k <= Len(input.urls) /\ log[k].url = input.urls[k]
       /\ log[k].took <= input.timeoutMs
       /\ k < Len(log) => log[k].outcome = "rejected"
  /\ result.returned # {}
       => /\ log # <<>> /\ log[Len(log)].outcome = "resolved"
          /\ Val(result.returned).rpc = input.urls[Len(log)]
  /\ result.thrown # {}
       => /\ Len(log) = Len(input.urls)
          /\ \A k \in 1 .. Len(log) : log[k].outcome = "rejected"
          /\ log # <<>> => Val(result.thrown) = log[Len(log)].message
  /\ Done => (result.returned # {}) # (result.thrown # {})

\* the first endpoint times out, the second refuses, the third connects
C22_Witness ==
  /\ Done /\ Len(result.attempts) = 3 /\ input.timeoutMs = 2
  /\ result.attempts[1].message = "RPC timeout" /\ result.attempts[1].took = 2
  /\ result.attempts[2].message = "refused"
  /\ result.returned = {[rpc |-> input.urls[3]]}

(***************************************************************************)
(* C23. Probe failures are data: no chain probe ever rejects; a probe      *)
(* that settled after a failure resolved with a snapshot with ok = false,  *)
(* an error message and neither nativeFree nor ed; a snapshot with         *)
(* ok = true carries both; probeAllChains never rejects and resolves with  *)
(* exactly four snapshots, of assethub, hydradx, relay, people in that     *)
(* order.                                                                  *)
(***************************************************************************)
C23_FailuresAreData ==
  /\ \A c \in ChainId :
       LET pr == result.probes[c] IN
       /\ pr.promise # "rejected"
       /\ pr.at = "settled" =>
            /\ pr.promise = "resolved" /\ pr.value # {}
            /\ LET snap == Val(pr.value) IN
               /\ snap.chain = c
               /\ IF snap.ok
                    THEN snap.nativeFree # {} /\ snap.ed # {} /\ snap.error = {}
                    ELSE snap.nativeFree = {} /\ snap.ed = {} /\ snap.error # {}
  /\ result.promise # "rejected"
  /\ Done =>
       /\ result.promise = "resolved"
       /\ Len(result.value) = 4
       /\ result.value[1].chain = "assethub" /\ result.value[2].chain = "hydradx"
       /\ result.value[3].chain = "relay" /\ result.value[4].chain = "people"

\* a failed query, a failed connection and two successes at once
C23_Witness ==
  /\ Done
  /\ ~result.value[1].ok /\ result.value[1].error = {"query failed"}
  /\ ~result.value[2].ok /\ result.value[2].error = {"RPC timeout"}
  /\ result.value[2].nativeSymbol = "xHDX"
  /\ result.value[3].ok /\ result.value[3].tokens = {{}}
  /\ result.value[4].ok /\ result.value[4].nativeFree = {1} /\ result.value[4].ed = {10}

(***************************************************************************)
(* C29. After the chain or the account changed (the effect was cleaned     *)
(* up), no balance or ED update of the previous effect has reached the     *)
(* parent, and its subscriptions and its connection are released, also     *)
(* when the change came while connectAndSubscribe was awaiting a           *)
(* connection or a subscription: once connectAndSubscribe has left the     *)
(* await, nothing of it is still connected or subscribed.                  *)
(***************************************************************************)
C29_CleanupReleases ==
  pc = "cleaned" =>
    /\ ~result.lateUpdate
    /\ result.unsubNative # "active" /\ result.unsubUsdc # "active"
    /\ result.at # "connecting" => result.api # "connected"

====
